---- MODULE Spec2Model ----
(***************************************************************************)
(* Time-series storage layer of infrasys: the two storage backends of      *)
(* src/ (InMemoryTimeSeriesStorage, ChronifyTimeSeriesStorage) and the     *)
(* TimeSeriesManager that drives one backend together with the metadata    *)
(* index and the id allocator.                                             *)
(*                                                                         *)
(* Four specifications share the variables:                                 *)
(*   BackendSpec  direct calls of the storage-backend contract             *)
(*                (add_time_series / get_time_series / remove_time_series) *)
(*   Spec         calls of TimeSeriesManager (add / get / remove), which   *)
(*                reach the backend only through the manager               *)
(*   SnapshotSpec the same calls together with serialize / deserialize     *)
(*   AssocSpec    calls of ComponentAssociations                           *)
(*                                                                         *)
(* Optional values (Python's None) are sequences: <<>> is None, <<x>> is x.*)
(* A failed call is recorded by the name of the exception class raised.    *)
(* "Exception" stands for the plain Exception the code raises itself and   *)
(* for any error raised inside the chronify Store, none of which is an     *)
(* infrasys exception class.                                               *)
(***************************************************************************)
EXTENDS Integers, Sequences, FiniteSets, Bags, TLC

VARIABLES
    kind,       \* which backend class self._storage is: "memory" | "chronify"
    arrays,     \* InMemoryTimeSeriesStorage._arrays: time series id -> series
    order,      \* the keys of _arrays in the dict's (insertion) order
    table,      \* ChronifyTimeSeriesStorage: rows of table "time_series" (a bag)
    read_only,  \* TimeSeriesManager._read_only
    meta,       \* TimeSeriesMetadataStore: the set of metadata rows
    ids,        \* the id field of each series object the caller holds
    next_id,    \* IDManager: the next id get_next_id() returns
    disk,       \* the files and directories on disk, by path (a number)
    live,       \* the path self._storage works on (None: the in-memory backend)
    desc,       \* the descriptor dict the last serialize() filled in
    at_exit,    \* the paths registered with atexit for _delete_tmp_file
    made_by,    \* for each path, the function that named and created it
    graph,      \* the components: the fields of each that hold components
    edges,      \* ComponentAssociations: rows of table "component_associations"
    since_clear, \* the add and remove calls on the associations since clear()
    last        \* the last call: its operation, arguments and outcome

vars == <<kind, arrays, order, table, read_only, meta, ids, next_id, disk, live, desc,
          at_exit, made_by, graph, edges, since_clear, last>>

\* a call that does not touch the component associations
AssociationsUnchanged == UNCHANGED <<graph, edges, since_clear>>

\* a call that writes no file, opens no file and fills in no descriptor
SnapshotUnchanged == UNCHANGED <<disk, live, desc, at_exit, made_by>>

----------------------------------------------------------------------------
(* Bounds *)

\* longest sample array of a series
MaxLen == 3
\* most copies of one (id, timestamp, value) row the table is let to hold
MaxCopies == 2
\* most metadata rows the index is let to hold
MaxRows == 2
\* most paths (database files, directories) on disk
MaxFiles == 3
\* most add() calls for one component since the last clear()
MaxAdds == 2

----------------------------------------------------------------------------
(* Values *)

None == <<>>
Some(x) == <<x>>
Val(o) == o[1]

Min(a, b) == IF a < b THEN a ELSE b

Kinds == {"memory", "chronify"}

\* models.py: id is Optional[int], default None
UnassignedId == None

\* sample arrays: n samples, the j-th being base + j
Samples(base, n) == [j \in 1..n |-> base + j]

\* the time axis the modelled series lie on: initial_time and resolution
TimeAxis == [start |-> 5, step |-> 2]

\* SingleTimeSeries as the backends read it
MakeSeries(id, name, n, base) ==
    [id |-> id, variable_name |-> name, initial_time |-> TimeAxis.start,
     resolution |-> TimeAxis.step, data |-> Samples(base, n)]

\* A path on disk holds a database file (the rows of its table) or a directory
\* of array files (one per time series id). The path the backend works on is
\* held as Opened: its content is the backend's own table / arrays.
Opened == [type |-> "open", rows |-> EmptyBag, arrays |-> <<>>]
DbFile(rows) == [type |-> "db", rows |-> rows, arrays |-> <<>>]
Directory(arr) == [type |-> "dir", rows |-> EmptyBag, arrays |-> arr]
\* a path that was unlinked
Deleted == [type |-> "deleted", rows |-> EmptyBag, arrays |-> <<>>]

\* the descriptor dict: an absent key is None
NoDescriptor == [time_series_storage_type |-> None, filename |-> None,
                 engine_name |-> None, directory |-> None]

\* create_with_temp_directory: the embedded-SQL backend starts on a new
\* temporary database file; the in-memory backend has no path
FreshDisk(k) == IF k = "chronify" THEN <<Opened>> ELSE <<>>
FreshLive(k) == IF k = "chronify" THEN Some(1) ELSE None
\* create_with_temp_directory: atexit.register(_delete_tmp_file, dst_file)
FreshAtExit(k) == IF k = "chronify" THEN {1} ELSE {}
FreshMadeBy(k) == IF k = "chronify" THEN <<"create_with_temp_directory">> ELSE <<>>

\* the components of the association index, by id
Entities == {1, 2, 3}

\* a component's fields that hold components: one field holding a component or
\* None, one holding a list of components, one holding a dict of components
NoFields == [direct |-> None, list |-> <<>>, nested |-> {}]
NoGraph == [e \in Entities |-> NoFields]

\* no add() and no remove() since the associations were made or cleared
NoCalls == [adds |-> [e \in Entities |-> 0], removed |-> FALSE]

----------------------------------------------------------------------------
(* Metadata of a single time series (time_series_models, not under src/) *)

\* metadata_type.from_data(time_series): the metadata describes the series
from_data(ts) ==
    [time_series_id |-> ts.id, variable_name |-> ts.variable_name,
     initial_time |-> ts.initial_time, resolution |-> ts.resolution,
     length |-> Len(ts.data)]

\* SingleTimeSeriesMetadataBase.get_range(start_time, length) -> (index, length)
\* a start_time off the time axis, or a length past the end, is an error
get_range(md, start_time, length) ==
    IF start_time = None /\ length = None
    THEN [err |-> "ok", index |-> 0, length |-> md.length]
    ELSE IF start_time # None
            /\ (\/ Val(start_time) < md.initial_time
                \/ Val(start_time) >= md.initial_time + md.length * md.resolution
                \/ (Val(start_time) - md.initial_time) % md.resolution # 0)
    THEN [err |-> "ISConflictingArguments", index |-> 0, length |-> 0]
    ELSE LET index == IF start_time = None THEN 0
                      ELSE (Val(start_time) - md.initial_time) \div md.resolution
             len == IF length = None THEN md.length - index ELSE Val(length)
         IN IF index + len > md.length
            THEN [err |-> "ISConflictingArguments", index |-> 0, length |-> 0]
            ELSE [err |-> "ok", index |-> index, length |-> len]

\* Python's seq[lo : hi] for 0 <= lo: clamps hi to the length, never raises
Slice(seq, lo, hi) == SubSeq(seq, lo + 1, Min(hi, Len(seq)))

\* what a failed call returns in place of a series
NoSeries == [initial_time |-> 0, data |-> <<>>]

----------------------------------------------------------------------------
(* InMemoryTimeSeriesStorage *)

InMemoryStored(arr, id) == id \in DOMAIN arr

\* add_time_series: stores under metadata.time_series_id unless already there
InMemoryAdd(arr, md, ts) ==
    IF md.time_series_id \notin DOMAIN arr
    THEN [arrays |-> arr @@ (md.time_series_id :> ts), err |-> "ok"]
    ELSE [arrays |-> arr, err |-> "ok"]

\* _get_single_time_series: the stored object itself, or a slice of it
InMemoryGetSingle(arr, md, start_time, length) ==
    LET base_ts == arr[md.time_series_id]
        r == get_range(md, start_time, length)
    IN IF start_time = None /\ length = None
       THEN [err |-> "ok",
             result |-> [initial_time |-> base_ts.initial_time, data |-> base_ts.data]]
       ELSE IF r.err # "ok"
       THEN [err |-> r.err, result |-> NoSeries]
       ELSE [err |-> "ok",
             result |-> [initial_time |-> IF start_time # None THEN Val(start_time)
                                          ELSE base_ts.initial_time,
                         data |-> Slice(base_ts.data, r.index, r.index + r.length)]]

\* get_time_series
InMemoryGet(arr, md, start_time, length) ==
    IF md.time_series_id \notin DOMAIN arr
    THEN [err |-> "ISNotStored", result |-> NoSeries]
    ELSE InMemoryGetSingle(arr, md, start_time, length)

\* remove_time_series: pop, ISNotStored when nothing was popped
InMemoryRemove(arr, id) ==
    IF id \in DOMAIN arr
    THEN [arrays |-> [i \in DOMAIN arr \ {id} |-> arr[i]], err |-> "ok"]
    ELSE [arrays |-> arr, err |-> "ISNotStored"]

----------------------------------------------------------------------------
(* ChronifyTimeSeriesStorage: one table (id, timestamp, value), a bag of rows *)

\* _to_dataframe: one row per sample, timestamps from make_timestamps()
ToRows(ts) ==
    SetToBag({[id |-> ts.id,
               timestamp |-> ts.initial_time + (j - 1) * ts.resolution,
               value |-> ts.data[j]] : j \in 1..Len(ts.data)})

RowsOf(tab, id) == [r \in {x \in DOMAIN tab : x.id = id} |-> tab[r]]

ChronifyStored(tab, id) == \E r \in DOMAIN tab : r.id = id

\* add_time_series: ingests the rows, whether or not the id has rows already.
\* The table declares no key. What the engine does with an ingestion that
\* repeats an id is the engine's: it appends the rows (lax) or rejects the
\* ingestion and leaves the table as it was.
ChronifyAdd(tab, md, ts, lax) ==
    IF ChronifyStored(tab, ts.id) /\ ~lax
    THEN [table |-> tab, err |-> "Exception"]
    ELSE [table |-> tab (+) ToRows(ts), err |-> "ok"]

\* remove_time_series: delete_rows(TABLE_NAME, {"id": id}); no ISNotStored is
\* raised here. A delete that matches no row is silent (lax) or an engine error.
ChronifyRemove(tab, id, lax) ==
    IF ChronifyStored(tab, id)
    THEN [table |-> [r \in {x \in DOMAIN tab : x.id # id} |-> tab[r]], err |-> "ok"]
    ELSE [table |-> tab, err |-> IF lax THEN "ok" ELSE "Exception"]

\* ORDER BY timestamp (rows of equal timestamp in order of value)
RECURSIVE SortRows(_)
SortRows(b) ==
    IF DOMAIN b = {} THEN <<>>
    ELSE LET m == CHOOSE r \in DOMAIN b : \A q \in DOMAIN b :
                      \/ r.timestamp < q.timestamp
                      \/ (r.timestamp = q.timestamp /\ r.value <= q.value)
         IN <<m>> \o SortRows(b (-) SetToBag({m}))

\* mutant: the query without its "timestamp >= ?" clause
QueryMutantNoStartFilter(tab, id, start_time, limit) ==
    LET sorted == SortRows(RowsOf(tab, id))
        rows == IF limit = None THEN sorted
                ELSE SubSeq(sorted, 1, Min(Val(limit), Len(sorted)))
    IN [j \in 1..Len(rows) |-> rows[j].value]

\* SELECT value FROM time_series WHERE id = ? [AND timestamp >= ?]
\* ORDER BY timestamp [LIMIT required_len]
Query(tab, id, start_time, limit) ==
    LET hit == [r \in {x \in DOMAIN tab :
                        /\ x.id = id
                        /\ (start_time # None => x.timestamp >= Val(start_time))}
                |-> tab[r]]
        sorted == SortRows(hit)
        rows == IF limit = None THEN sorted
                ELSE SubSeq(sorted, 1, Min(Val(limit), Len(sorted)))
    IN [j \in 1..Len(rows) |-> rows[j].value]

\* _get_single_time_series: get_range, the query, then the row-count check
ChronifyGet(tab, md, start_time, length) ==
    LET r == get_range(md, start_time, length)
        df == Query(tab, md.time_series_id, start_time,
                    IF length = None THEN None ELSE Some(r.length))
    IN IF r.err # "ok" THEN [err |-> r.err, result |-> NoSeries]
       ELSE IF Len(df) # r.length THEN [err |-> "Exception", result |-> NoSeries]
       ELSE [err |-> "ok",
             result |-> [initial_time |-> IF start_time # None THEN Val(start_time)
                                          ELSE md.initial_time,
                         data |-> df]]

----------------------------------------------------------------------------
(* ArrowTimeSeriesStorage (arrow_storage, not under src/): a directory with *)
(* one array file per time series id, behaving as the backend contract says *)

ArrowStored(arr, id) == id \in DOMAIN arr

\* add_time_series: writes the file of the id unless there is one
ArrowAdd(arr, md, ts) ==
    IF md.time_series_id \in DOMAIN arr
    THEN [arrays |-> arr, err |-> "ok"]
    ELSE [arrays |-> arr @@ (md.time_series_id :> ts), err |-> "ok"]

\* get_time_series: NotStored for an absent id, else the requested range; a
\* row count other than the required length is an error
ArrowGet(arr, md, start_time, length) ==
    IF md.time_series_id \notin DOMAIN arr
    THEN [err |-> "ISNotStored", result |-> NoSeries]
    ELSE LET r == get_range(md, start_time, length)
             base_ts == arr[md.time_series_id]
             data == Slice(base_ts.data, r.index, r.index + r.length)
         IN IF r.err # "ok" THEN [err |-> r.err, result |-> NoSeries]
            ELSE IF Len(data) # r.length THEN [err |-> "Exception", result |-> NoSeries]
            ELSE [err |-> "ok",
                  result |-> [initial_time |-> IF start_time # None THEN Val(start_time)
                                               ELSE md.initial_time,
                              data |-> data]]

\* remove_time_series: deletes the file of the id, NotStored when there is none
ArrowRemove(arr, id) ==
    IF id \in DOMAIN arr
    THEN [arrays |-> [i \in DOMAIN arr \ {id} |-> arr[i]], err |-> "ok"]
    ELSE [arrays |-> arr, err |-> "ISNotStored"]

----------------------------------------------------------------------------
(* The backend contract, dispatched on the backend class *)

Stored(k, arr, tab, id) ==
    IF k = "memory" THEN InMemoryStored(arr, id)
    ELSE IF k = "arrow" THEN ArrowStored(arr, id)
    ELSE ChronifyStored(tab, id)

StorageAdd(k, arr, tab, md, ts, lax) ==
    IF k = "memory"
    THEN LET o == InMemoryAdd(arr, md, ts)
         IN [arrays |-> o.arrays, table |-> tab, err |-> o.err]
    ELSE IF k = "arrow"
    THEN LET o == ArrowAdd(arr, md, ts)
         IN [arrays |-> o.arrays, table |-> tab, err |-> o.err]
    ELSE LET o == ChronifyAdd(tab, md, ts, lax)
         IN [arrays |-> arr, table |-> o.table, err |-> o.err]

StorageGet(k, arr, tab, md, start_time, length) ==
    IF k = "memory" THEN InMemoryGet(arr, md, start_time, length)
    ELSE IF k = "arrow" THEN ArrowGet(arr, md, start_time, length)
    ELSE ChronifyGet(tab, md, start_time, length)

StorageRemove(k, arr, tab, id, lax) ==
    IF k = "memory"
    THEN LET o == InMemoryRemove(arr, id)
         IN [arrays |-> o.arrays, table |-> tab, err |-> o.err]
    ELSE IF k = "arrow"
    THEN LET o == ArrowRemove(arr, id)
         IN [arrays |-> o.arrays, table |-> tab, err |-> o.err]
    ELSE LET o == ChronifyRemove(tab, id, lax)
         IN [arrays |-> arr, table |-> o.table, err |-> o.err]

\* a set of ids as a list, ascending
RECURSIVE Ascending(_)
Ascending(S) ==
    IF S = {} THEN <<>>
    ELSE LET lo == CHOOSE x \in S : \A y \in S : x <= y
         IN <<lo>> \o Ascending(S \ {lo})

\* the keys of self._arrays in the order the dict holds them, after a call
\* that left the arrays arr: a key that was popped is gone, a key that stayed
\* keeps its place, a new key is at the end. The other backends have no dict.
DictOrder(k, ord, arr) ==
    IF k # "memory" THEN <<>>
    ELSE LET kept == SelectSeq(ord, LAMBDA i : i \in DOMAIN arr)
             had == {ord[j] : j \in DOMAIN ord}
         IN kept \o Ascending(DOMAIN arr \ had)

\* no row of the table is held more than MaxCopies times
WithinCopies(tab) == \A r \in DOMAIN tab : tab[r] <= MaxCopies

----------------------------------------------------------------------------
(* TimeSeriesMetadataStore (time_series_metadata_store, not under src/):     *)
(* a set of rows, one per (component, variable name, user attributes)        *)

\* has_time_series(time_series_id): some row references the physical id
MetaHasTimeSeries(m, id) == \E r \in m : r.md.time_series_id = id

\* the filter of get_metadata / list_metadata / remove: the component, the
\* variable name when one is given, the user attributes when any are given
NoName == "None"
NoAttrs == "{}"

MetaMatch(r, comps, name, attrs) ==
    /\ r.component \in comps
    /\ (name # NoName => r.md.variable_name = name)
    /\ (attrs # NoAttrs => r.attrs = attrs)

MetaRows(m, comps, name, attrs) == {r \in m : MetaMatch(r, comps, name, attrs)}

\* add(metadata, *components): one row per component; ISAlreadyAttached when
\* one of the components has a row of that variable name and those attributes
MetaAdd(m, md, comps, attrs) ==
    IF \E r \in m : /\ r.component \in comps
                    /\ r.md.variable_name = md.variable_name
                    /\ r.attrs = attrs
    THEN [meta |-> m, err |-> "ISAlreadyAttached"]
    ELSE [meta |-> m \cup {[component |-> c, attrs |-> attrs, md |-> md] : c \in comps},
          err |-> "ok"]

\* get_metadata: exactly one row, else ISNotStored (none) or
\* ISOperationNotAllowed (several)
MetaGet(m, comp, name, attrs) ==
    LET rows == MetaRows(m, {comp}, name, attrs)
    IN IF rows = {} THEN [err |-> "ISNotStored", rows |-> rows]
       ELSE IF Cardinality(rows) > 1 THEN [err |-> "ISOperationNotAllowed", rows |-> rows]
       ELSE [err |-> "ok", rows |-> rows]

\* remove(*components, filters): deletes the matching rows and returns the
\* physical ids they referenced; ISNotStored when no row matched
MetaRemove(m, comps, name, attrs) ==
    LET rows == MetaRows(m, comps, name, attrs)
    IN IF rows = {} THEN [meta |-> m, ids |-> {}, err |-> "ISNotStored"]
       ELSE [meta |-> m \ rows, ids |-> {r.md.time_series_id : r \in rows}, err |-> "ok"]

\* list_missing_time_series(ids): the ids no row references any more
MetaListMissing(m, touched) == {i \in touched : ~MetaHasTimeSeries(m, i)}

----------------------------------------------------------------------------
(* TimeSeriesManager *)

Components == {"c1", "c2"}

\* the series objects a caller holds: s1 and s2 carry the same variable name
SeriesObjs == {"s1", "s2"}
\* what a caller may hand to add(): a series object or something that is none
Values == SeriesObjs \cup {"not_a_series"}

SeriesName(s) == "v"
SeriesBase(s) == IF s = "s1" THEN 10 ELSE 20

\* the series object s once its id field holds id
SeriesOf(s, id) == MakeSeries(id, SeriesName(s), MaxLen, SeriesBase(s))

AttrBags == {NoAttrs, "{k:1}"}
NameFilters == {NoName, "v", "w"}

\* the ranges asked through the manager: the whole array, or one sample from
\* the second sample on
MRanges == {[start_time |-> None, length |-> None],
            [start_time |-> Some(TimeAxis.start + TimeAxis.step), length |-> Some(1)]}

\* what the engine may do where the code leaves it to the engine: both ways
\* when the call meets such a case (an ingestion for an id that has rows, a
\* delete for an id that has none), else nothing to choose
EngineChoices(k, tab, ingested, deleted) ==
    IF /\ k = "chronify"
       /\ \/ \E i \in ingested : ChronifyStored(tab, i)
          \/ \E i \in deleted : ~ChronifyStored(tab, i)
    THEN BOOLEAN ELSE {TRUE}

\* the ghost record of a manager call: the exception raised ("ok" if none),
\* the physical id of the series add() was given, the filters and range get()
\* was given, the ids handed to storage.add_time_series and
\* storage.remove_time_series in call order, whether storage.get_time_series was
\* called, and what get returned
NoQuery == [component |-> "", variable_name |-> NoName, attrs |-> NoAttrs,
            start_time |-> None, length |-> None]

Call(op, err, id, query, stored, removed, read, result) ==
    [op |-> op, err |-> err, id |-> id, query |-> query, stored |-> stored,
     removed |-> removed, read |-> read, result |-> result]

\* IDManager.get_next_id (id_manager, not under src/): the next unused integer
get_next_id(n) == [id |-> n, next_id |-> n + 1]

\* mutant: the read-only flag is not looked at
HandleReadOnlyMutantIgnored(ro) == FALSE

\* _handle_read_only: raises ISOperationNotAllowed when the flag is set
HandleReadOnly(ro) == ro

\* mutant: a call without components is let through
NoComponentsMutantAccepted(comps) == FALSE

\* add: "if not components: raise ISOperationNotAllowed"
NoComponents(comps) == comps = {}

\* add: "issubclass(ts_type, TimeSeriesData)" fails, raise ValueError
NotTimeSeries(v) == v \notin SeriesObjs

\* mutant: the array is never handed to the backend
NeedsStoreMutantNever(m, id) == FALSE

\* mutant: the array is handed to the backend on every add
NeedsStoreMutantAlways(m, id) == TRUE

\* add: the array is handed to the backend only when no row references its id
NeedsStore(m, id) == ~MetaHasTimeSeries(m, id)

\* mutant: every add gives the series the allocator's next id
AssignedIdMutantAlwaysNew(cur, new) == new

\* add: "if time_series.id is None: time_series.id = get_next_id()"
AssignedId(cur, new) == IF cur = UnassignedId THEN new ELSE Val(cur)

\* a call that raised before it changed anything
Raise(op, err) ==
    /\ last' = Call(op, err, None, NoQuery, <<>>, <<>>, FALSE, NoSeries)
    /\ UNCHANGED <<kind, arrays, order, table, read_only, meta, ids, next_id>>
    /\ SnapshotUnchanged
    /\ AssociationsUnchanged

\* add(time_series, *components, **user_attributes)
Add(v, comps, attrs) ==
    IF HandleReadOnly(read_only) THEN Raise("add", "ISOperationNotAllowed")
    ELSE IF NoComponents(comps) THEN Raise("add", "ISOperationNotAllowed")
    ELSE IF NotTimeSeries(v) THEN Raise("add", "ValueError")
    ELSE LET fresh == ids[v] = UnassignedId
             alloc == get_next_id(next_id)
             id == AssignedId(ids[v], alloc.id)
             ts == SeriesOf(v, id)
             md == from_data(ts)
             store == NeedsStore(meta, id)
         IN \E lax \in EngineChoices(kind, table, IF store THEN {id} ELSE {}, {}) :
            LET so == IF store THEN StorageAdd(kind, arrays, table, md, ts, lax)
                      ELSE [arrays |-> arrays, table |-> table, err |-> "ok"]
                mo == IF so.err = "ok" THEN MetaAdd(meta, md, comps, attrs)
                      ELSE [meta |-> meta, err |-> so.err]
            IN /\ WithinCopies(so.table)
               /\ Cardinality(mo.meta) <= MaxRows
               /\ ids' = [ids EXCEPT ![v] = Some(id)]
               /\ next_id' = IF fresh THEN alloc.next_id ELSE next_id
               /\ arrays' = so.arrays
               /\ order' = DictOrder(kind, order, arrays')
               /\ table' = so.table
               /\ meta' = mo.meta
               /\ last' = Call("add", mo.err, Some(id), NoQuery,
                               IF store THEN <<id>> ELSE <<>>, <<>>, FALSE, NoSeries)
               /\ UNCHANGED <<kind, read_only>>
               /\ SnapshotUnchanged
               /\ AssociationsUnchanged

\* mutant: several matching rows are resolved by taking one of them
GetOutcomeMutantFirstMatch(m, k, arr, tab, comp, name, attrs, start_time, length) ==
    LET rows == MetaRows(m, {comp}, name, attrs)
    IN IF rows = {} THEN [err |-> "ISNotStored", read |-> FALSE, result |-> NoSeries]
       ELSE LET row == CHOOSE r \in rows : TRUE
                o == StorageGet(k, arr, tab, row.md, start_time, length)
            IN [err |-> o.err, read |-> TRUE, result |-> o.result]

\* get: get_metadata, then storage.get_time_series with the one row's metadata
GetOutcome(m, k, arr, tab, comp, name, attrs, start_time, length) ==
    LET g == MetaGet(m, comp, name, attrs)
    IN IF g.err # "ok" THEN [err |-> g.err, read |-> FALSE, result |-> NoSeries]
       ELSE LET row == CHOOSE r \in g.rows : TRUE
                o == StorageGet(k, arr, tab, row.md, start_time, length)
            IN [err |-> o.err, read |-> TRUE, result |-> o.result]

\* mutant: get takes the array it reads out of the backend
GetMutantPops(comp, name, attrs, start_time, length) ==
    LET o == GetOutcome(meta, kind, arrays, table, comp, name, attrs, start_time, length)
        hit == {r.md.time_series_id : r \in MetaRows(meta, {comp}, name, attrs)}
        popped == IF o.read THEN hit ELSE {}
    IN /\ last' = Call("get", o.err, None,
                       [component |-> comp, variable_name |-> name, attrs |-> attrs,
                        start_time |-> start_time, length |-> length],
                       <<>>, <<>>, o.read, o.result)
       /\ arrays' = [i \in DOMAIN arrays \ popped |-> arrays[i]]
       /\ order' = DictOrder(kind, order, arrays')
       /\ table' = [r \in {x \in DOMAIN table : x.id \notin popped} |-> table[r]]
       /\ UNCHANGED <<kind, read_only, meta, ids, next_id>>
       /\ SnapshotUnchanged
       /\ AssociationsUnchanged

\* get(component, variable_name, time_series_type, start_time, length, **attrs)
Get(comp, name, attrs, start_time, length) ==
    LET o == GetOutcome(meta, kind, arrays, table, comp, name, attrs, start_time, length)
    IN /\ last' = Call("get", o.err, None,
                       [component |-> comp, variable_name |-> name, attrs |-> attrs,
                        start_time |-> start_time, length |-> length],
                       <<>>, <<>>, o.read, o.result)
       /\ UNCHANGED <<kind, arrays, order, table, read_only, meta, ids, next_id>>
       /\ SnapshotUnchanged
       /\ AssociationsUnchanged

\* mutant: every id the deleted rows referenced is deleted physically
MissingIdsMutantAllTouched(m, touched) == touched

\* the ids remove() deletes physically, of those its deleted rows referenced
MissingIds(m, touched) == MetaListMissing(m, touched)

\* remove: "for ts_id in missing_ids: self._storage.remove_time_series(ts_id)";
\* an exception ends the loop
RECURSIVE RemoveEach(_, _, _, _, _)
RemoveEach(k, arr, tab, todo, lax) ==
    IF todo = <<>> THEN [arrays |-> arr, table |-> tab, err |-> "ok", removed |-> <<>>]
    ELSE LET o == StorageRemove(k, arr, tab, Head(todo), lax)
         IN IF o.err # "ok"
            THEN [arrays |-> o.arrays, table |-> o.table, err |-> o.err,
                  removed |-> <<Head(todo)>>]
            ELSE LET rest == RemoveEach(k, o.arrays, o.table, Tail(todo), lax)
                 IN [arrays |-> rest.arrays, table |-> rest.table, err |-> rest.err,
                     removed |-> <<Head(todo)>> \o rest.removed]

\* remove(*components, variable_name, time_series_type, **user_attributes)
Remove(comps, name, attrs) ==
    IF HandleReadOnly(read_only) THEN Raise("remove", "ISOperationNotAllowed")
    ELSE LET mo == MetaRemove(meta, comps, name, attrs)
         IN IF mo.err # "ok" THEN Raise("remove", mo.err)
            ELSE LET missing == MissingIds(mo.meta, mo.ids)
                 IN \E lax \in EngineChoices(kind, table, {}, missing) :
                    LET ro == RemoveEach(kind, arrays, table, Ascending(missing), lax)
                    IN /\ meta' = mo.meta
                       /\ arrays' = ro.arrays
                       /\ order' = DictOrder(kind, order, arrays')
                       /\ table' = ro.table
                       /\ last' = Call("remove", ro.err, None, NoQuery, <<>>, ro.removed,
                                       FALSE, NoSeries)
                       /\ UNCHANGED <<kind, read_only, ids, next_id>>
                       /\ SnapshotUnchanged
                       /\ AssociationsUnchanged

\* __init__ with storage given: a manager over the same connection, allocator
\* and backend, with time_series_read_only as passed
Reopen(ro) ==
    /\ read_only' = ro
    /\ last' = Call("init", "ok", None, NoQuery, <<>>, <<>>, FALSE, NoSeries)
    /\ UNCHANGED <<kind, arrays, order, table, meta, ids, next_id>>
    /\ SnapshotUnchanged
    /\ AssociationsUnchanged

Init ==
    /\ kind \in Kinds
    /\ arrays = <<>>
    /\ order = <<>>
    /\ table = EmptyBag
    /\ read_only = FALSE
    /\ meta = {}
    /\ ids = [s \in SeriesObjs |-> UnassignedId]
    /\ next_id = 1
    /\ disk = FreshDisk(kind)
    /\ live = FreshLive(kind)
    /\ desc = NoDescriptor
    /\ at_exit = FreshAtExit(kind)
    /\ made_by = FreshMadeBy(kind)
    /\ graph = NoGraph
    /\ edges = EmptyBag
    /\ since_clear = NoCalls
    /\ last = Call("init", "ok", None, NoQuery, <<>>, <<>>, FALSE, NoSeries)

Next ==
    \/ \E v \in Values, comps \in SUBSET Components, attrs \in AttrBags :
           Add(v, comps, attrs)
    \/ \E comp \in Components, name \in NameFilters, attrs \in AttrBags, rg \in MRanges :
           Get(comp, name, attrs, rg.start_time, rg.length)
    \/ \E comps \in SUBSET Components \ {{}}, name \in NameFilters, attrs \in AttrBags :
           Remove(comps, name, attrs)
    \/ \E ro \in BOOLEAN : Reopen(ro)

Spec == Init /\ [][Next]_vars

----------------------------------------------------------------------------
(* Claims about TimeSeriesManager, checked under Spec *)

\* what the backend holds under an id (nothing: <<>>)
ContentOf(k, arr, tab, id) ==
    IF k = "memory" THEN (IF id \in DOMAIN arr THEN <<arr[id]>> ELSE <<>>)
    ELSE RowsOf(tab, id)

\* every id the allocator has issued
IssuedIds == 1..(next_id - 1)

\* the ids a call of remove handed to storage.remove_time_series
RemovedSet(call) == {call.removed[j] : j \in 1..Len(call.removed)}

\* C1: in every remove step the backend's remove_time_series is called, once
\* each, for exactly the ids that the deleted rows referenced and that no row
\* references after the deletion; those arrays are gone afterwards and every
\* other array is held unchanged. An array that a deleted row shared with a
\* surviving row is still stored and is read through the surviving row as before.
C1_ReferenceCountedRemove ==
    [][last'.op = "remove" =>
          LET touched == {r.md.time_series_id : r \in meta \ meta'}
              gone == {i \in touched : ~MetaHasTimeSeries(meta', i)}
          IN /\ RemovedSet(last') = gone
             /\ Len(last'.removed) = Cardinality(gone)
             /\ \A i \in gone : ~Stored(kind, arrays', table', i)
             /\ \A i \in IssuedIds \ gone :
                    ContentOf(kind, arrays', table', i) = ContentOf(kind, arrays, table, i)
             /\ \A r \in meta' :
                    r.md.time_series_id \in touched =>
                        /\ Stored(kind, arrays', table', r.md.time_series_id)
                        /\ StorageGet(kind, arrays', table', r.md, None, None)
                               = StorageGet(kind, arrays, table, r.md, None, None)]_vars

\* C1 witness: a remove deleted one of two rows that shared a physical id: no
\* array was deleted and the surviving row still reads the array
C1_Witness ==
    /\ last.op = "remove" /\ last.err = "ok" /\ last.removed = <<>>
    /\ \E r \in meta :
           StorageGet(kind, arrays, table, r.md, None, None).err = "ok"

\* C2: in every add step of a series whose physical id a metadata row already
\* references, storage.add_time_series is not called and the backend is
\* unchanged; when no row references the id yet it is called once, for that id.
\* A successful add registers rows with that id, and a registered row reads the
\* same through get as every row that shares its physical id.
C2_AddStoresOnce ==
    [][(last'.op = "add" /\ last'.id # None) =>
          LET id == Val(last'.id)
          IN /\ MetaHasTimeSeries(meta, id) =>
                    (last'.stored = <<>> /\ arrays' = arrays /\ table' = table)
             /\ ~MetaHasTimeSeries(meta, id) => last'.stored = <<id>>
             /\ last'.err = "ok" =>
                    /\ meta' \ meta # {}
                    /\ meta \subseteq meta'
                    /\ \A r \in meta' \ meta : r.md.time_series_id = id
             /\ \A r1 \in meta' \ meta, r2 \in meta' :
                    r1.md.time_series_id = r2.md.time_series_id =>
                        \A rg \in MRanges :
                            StorageGet(kind, arrays', table', r1.md, rg.start_time, rg.length)
                                = StorageGet(kind, arrays', table', r2.md, rg.start_time, rg.length)]_vars

\* C2 witness: a second add of the same physical id succeeded without storing,
\* two rows now share the id and both read the array
C2_Witness ==
    /\ last.op = "add" /\ last.err = "ok" /\ last.stored = <<>>
    /\ \E r1, r2 \in meta :
           /\ r1 # r2
           /\ r1.md.time_series_id = Val(last.id)
           /\ r2.md.time_series_id = Val(last.id)
           /\ StorageGet(kind, arrays, table, r1.md, None, None).err = "ok"
           /\ StorageGet(kind, arrays, table, r1.md, None, None)
                  = StorageGet(kind, arrays, table, r2.md, None, None)

\* C3: on a read-only manager every add and every remove raises
\* ISOperationNotAllowed and changes nothing: not the metadata rows, not the
\* backend, not a series' id, not the allocator; the backend is not called.
C3_ReadOnlyRejects ==
    [][(read_only /\ last'.op \in {"add", "remove"}) =>
          /\ last'.err = "ISOperationNotAllowed"
          /\ last'.stored = <<>>
          /\ last'.removed = <<>>
          /\ UNCHANGED <<meta, arrays, table, ids, next_id, read_only>>]_vars

\* C3 witness: a read-only manager that holds rows rejected an add while a
\* series still has no id
C3_Witness ==
    /\ read_only
    /\ last.op = "add" /\ last.err = "ISOperationNotAllowed"
    /\ meta # {}
    /\ \E s \in SeriesObjs : ids[s] = UnassignedId

\* C9: get returns a series only when exactly one row of the component matches
\* the filters, and then the series the backend returns for that row; with no
\* matching row it raises ISNotStored, with two or more ISOperationNotAllowed,
\* and in both cases storage.get_time_series is not called.
C9_ExactlyOneMatch ==
    last.op = "get" =>
        LET q == last.query
            rows == MetaRows(meta, {q.component}, q.variable_name, q.attrs)
        IN /\ rows = {} =>
                  (last.err = "ISNotStored" /\ ~last.read /\ last.result = NoSeries)
           /\ Cardinality(rows) >= 2 =>
                  (last.err = "ISOperationNotAllowed" /\ ~last.read
                   /\ last.result = NoSeries)
           /\ Cardinality(rows) = 1 =>
                  /\ last.read
                  /\ \A r \in rows :
                         LET o == StorageGet(kind, arrays, table, r.md,
                                             q.start_time, q.length)
                         IN last.err = o.err /\ last.result = o.result

\* C9 witness: a get whose filters matched two rows of the component failed
C9_Witness ==
    /\ last.op = "get" /\ last.err = "ISOperationNotAllowed"
    /\ Cardinality(MetaRows(meta, {last.query.component}, last.query.variable_name,
                            last.query.attrs)) = 2

\* C10: add with no component on a writable manager raises
\* ISOperationNotAllowed and changes nothing: no id is taken from the allocator
\* or given to the series, the backend is not called and no row is added.
C10_AddWithoutComponents ==
    [][last'.op = "add" =>
          \A v \in Values, attrs \in AttrBags :
              (~read_only /\ Add(v, {}, attrs)) =>
                  /\ last'.err = "ISOperationNotAllowed"
                  /\ last'.stored = <<>>
                  /\ UNCHANGED <<meta, arrays, table, ids, next_id>>]_vars

\* C10 witness: a writable manager rejected an add (only the call without
\* components is rejected so) while a series still has no id
C10_Witness ==
    /\ ~read_only
    /\ last.op = "add" /\ last.err = "ISOperationNotAllowed"
    /\ \E s \in SeriesObjs : ids[s] = UnassignedId

----------------------------------------------------------------------------
(* BackendSpec: the storage-backend contract called directly *)

BIds == {1, 2}

\* the lengths of the arrays handed to the backend: the longest and one shorter
BLengths == {MaxLen - 1, MaxLen}

\* the series handed to add_time_series: per id, one array of each length
BSeries == {MakeSeries(i, "v", n, 10 * i) : i \in BIds, n \in BLengths}

\* the metadata handed to get_time_series: any id with any recorded length,
\* so also a length that differs from what is stored under the id
BMetadata == {from_data(s) : s \in BSeries}

\* start_time: omitted, or an instant on, between or off the ends of the axis
Starts == {None} \cup
    {Some(t) : t \in (TimeAxis.start - 1)..(TimeAxis.start + TimeAxis.step * MaxLen)}

\* length: omitted, or 1 .. one more than the longest array
Lengths == {None} \cup {Some(n) : n \in 1..(MaxLen + 1)}

BInit ==
    /\ kind \in Kinds
    /\ arrays = <<>>
    /\ order = <<>>
    /\ table = EmptyBag
    /\ read_only = FALSE
    /\ meta = {}
    /\ ids = <<>>
    /\ next_id = 1
    /\ disk = FreshDisk(kind)
    /\ live = FreshLive(kind)
    /\ desc = NoDescriptor
    /\ at_exit = FreshAtExit(kind)
    /\ made_by = FreshMadeBy(kind)
    /\ graph = NoGraph
    /\ edges = EmptyBag
    /\ since_clear = NoCalls
    /\ last = [op |-> "none", err |-> "ok"]

ManagerUnchanged ==
    UNCHANGED <<kind, read_only, meta, ids, next_id, disk, live, desc,
                at_exit, made_by, graph, edges, since_clear>>

\* storage.add_time_series(metadata, time_series), metadata made from the series
BAdd(ts) ==
    \E lax \in EngineChoices(kind, table, {ts.id}, {}) :
    LET o == StorageAdd(kind, arrays, table, from_data(ts), ts, lax)
    IN /\ WithinCopies(o.table)
       /\ arrays' = o.arrays
       /\ order' = DictOrder(kind, order, arrays')
       /\ table' = o.table
       /\ last' = [op |-> "add", err |-> o.err, id |-> ts.id, ts |-> ts]
       /\ ManagerUnchanged

\* storage.get_time_series(metadata, start_time, length)
BGet(md, start_time, length) ==
    LET o == StorageGet(kind, arrays, table, md, start_time, length)
    IN /\ last' = [op |-> "get", err |-> o.err, id |-> md.time_series_id, md |-> md,
                   start_time |-> start_time, length |-> length, result |-> o.result]
       /\ UNCHANGED <<arrays, order, table>>
       /\ ManagerUnchanged

\* storage.remove_time_series(time_series_id)
BRemove(id) ==
    \E lax \in EngineChoices(kind, table, {}, {id}) :
    LET o == StorageRemove(kind, arrays, table, id, lax)
    IN /\ arrays' = o.arrays
       /\ order' = DictOrder(kind, order, arrays')
       /\ table' = o.table
       /\ last' = [op |-> "remove", err |-> o.err, id |-> id]
       /\ ManagerUnchanged

BNext ==
    \/ \E ts \in BSeries : BAdd(ts)
    \/ \E md \in BMetadata, st \in Starts, ln \in Lengths : BGet(md, st, ln)
    \/ \E id \in BIds : BRemove(id)

BackendSpec == BInit /\ [][BNext]_vars

----------------------------------------------------------------------------
(* Claims about the backend contract, checked under BackendSpec *)

\* the samples held under an id, in stored order
StoredSamples(k, arr, tab, id) ==
    IF k = "memory" THEN arr[id].data ELSE Query(tab, id, None, None)

\* the id holds one series and md describes it: same time axis, same length
WellStored(k, arr, tab, md) ==
    IF k = "memory"
    THEN /\ md.time_series_id \in DOMAIN arr
         /\ arr[md.time_series_id].initial_time = md.initial_time
         /\ arr[md.time_series_id].resolution = md.resolution
         /\ Len(arr[md.time_series_id].data) = md.length
    ELSE LET rows == RowsOf(tab, md.time_series_id)
         IN /\ \A r \in DOMAIN rows : rows[r] = 1
            /\ Cardinality(DOMAIN rows) = md.length
            /\ {r.timestamp : r \in DOMAIN rows}
                   = {md.initial_time + j * md.resolution : j \in 0..(md.length - 1)}

\* start_time is omitted or an instant of the series' time axis
OnAxis(md, start_time) ==
    start_time # None =>
        Val(start_time) \in {md.initial_time + j * md.resolution : j \in 0..(md.length - 1)}

IndexOf(md, start_time) ==
    IF start_time = None THEN 0
    ELSE (Val(start_time) - md.initial_time) \div md.resolution

\* C4: for every backend, add_time_series for an id that is already stored is
\* a silent no-op: no error is raised and the stored content of every id is
\* what it was, so a later get_time_series returns the original samples.
C4_AddStoredIdIsNoOp ==
    [][\A ts \in BSeries :
          (BAdd(ts) /\ Stored(kind, arrays, table, ts.id)) =>
              /\ last'.err = "ok"
              /\ arrays' = arrays
              /\ table' = table]_vars

\* C5: for every backend, a series stored with length L, a start_time t on its
\* time axis (or omitted) and a length n with 1 <= n <= samples from t to the
\* end (or omitted): get_time_series returns a series that starts at t (at the
\* metadata's initial_time when omitted) and holds exactly the n stored samples
\* from the index of t on (all samples to the end when omitted), in stored order.
C5_RangeContract ==
    (/\ last.op = "get"
     /\ WellStored(kind, arrays, table, last.md)
     /\ OnAxis(last.md, last.start_time)
     /\ (last.length # None =>
            /\ Val(last.length) >= 1
            /\ Val(last.length) <= last.md.length - IndexOf(last.md, last.start_time)))
    => LET index == IndexOf(last.md, last.start_time)
           n == IF last.length = None THEN last.md.length - index ELSE Val(last.length)
       IN /\ last.err = "ok"
          /\ last.result.initial_time =
                 (IF last.start_time = None THEN last.md.initial_time
                  ELSE Val(last.start_time))
          /\ Len(last.result.data) = n
          /\ last.result.data =
                 SubSeq(StoredSamples(kind, arrays, table, last.id), index + 1, index + n)

\* C5 witness: the embedded-SQL backend returned a proper sub-range that starts
\* after the first sample and stops before the last one
C5_Witness ==
    /\ last.op = "get" /\ last.err = "ok" /\ kind = "chronify"
    /\ WellStored(kind, arrays, table, last.md)
    /\ last.start_time # None /\ last.length # None
    /\ IndexOf(last.md, last.start_time) = 1
    /\ Val(last.length) = 1
    /\ last.md.length = 3
    /\ Len(last.result.data) = 1

\* C6: for every backend, get_time_series never returns a series whose number
\* of samples differs from the required length computed from the request
\* (metadata.get_range); a stored array that drifted from the metadata makes the
\* call fail instead.
C6_NoSilentTruncation ==
    (last.op = "get" /\ last.err = "ok") =>
        Len(last.result.data) =
            get_range(last.md, last.start_time, last.length).length

\* C7: for every backend, get_time_series for an id that is not stored fails
\* with ISNotStored and leaves the backend unchanged.
C7_GetAbsentIsNotStored ==
    [][\A md \in BMetadata, st \in Starts, ln \in Lengths :
          (BGet(md, st, ln) /\ ~Stored(kind, arrays, table, md.time_series_id)) =>
              /\ last'.err = "ISNotStored"
              /\ arrays' = arrays
              /\ table' = table]_vars

\* C8: for every backend, remove_time_series(id) of a stored id deletes exactly
\* that array and leaves every other one unchanged; of an id that is not stored
\* it fails with ISNotStored and leaves the backend unchanged.
C8_RemoveContract ==
    [][\A id \in BIds :
          BRemove(id) =>
              IF Stored(kind, arrays, table, id)
              THEN /\ last'.err = "ok"
                   /\ ~Stored(kind, arrays', table', id)
                   /\ \A j \in BIds \ {id} :
                          /\ Stored(kind, arrays', table', j) = Stored(kind, arrays, table, j)
                          /\ (kind = "memory" /\ j \in DOMAIN arrays => arrays'[j] = arrays[j])
                          /\ RowsOf(table', j) = RowsOf(table, j)
              ELSE /\ last'.err = "ISNotStored"
                   /\ arrays' = arrays
                   /\ table' = table]_vars

----------------------------------------------------------------------------
(* Further claims about TimeSeriesManager.add and remove, checked under Spec *)

\* C11: add on a writable manager with at least one component and a value that
\* is not a time series raises ISOperationNotAllowed, the error of the read-only
\* and no-component failures, and leaves the allocator, the backend and the
\* metadata rows unchanged.
C11_NotTimeSeriesIsNotAllowed ==
    [][last'.op = "add" =>
          \A v \in Values \ SeriesObjs, comps \in SUBSET Components \ {{}},
             attrs \in AttrBags :
              (~read_only /\ Add(v, comps, attrs)) =>
                  /\ last'.err = "ISOperationNotAllowed"
                  /\ UNCHANGED <<meta, arrays, table, ids, next_id>>]_vars

\* C19: in every reachable state the physical ids the backend holds are the
\* ids that at least one metadata row references: no array without a row, no
\* row without an array, also after calls that failed part-way.
C19_StoreIndexConsistent ==
    \A i \in IssuedIds :
        Stored(kind, arrays, table, i) <=> MetaHasTimeSeries(meta, i)

\* C20 as stated: a series is given its id only by an add that succeeds.
C20_IdOnlyOnSuccessfulAdd ==
    [][(last'.op = "add" /\ ids' # ids) => last'.err = "ok"]_vars

\* C20 amended: a series without an id is given the allocator's next id by the
\* first add that passes the read-only, component and type checks, whether or
\* not that add then succeeds; the allocator moves by exactly that one id. A
\* series that has an id keeps it in every step and no id is consumed for it;
\* no other step touches an id or the allocator; two series never share an id.
C20_IdAssignedOnce ==
    [][/\ \A s \in SeriesObjs : ids[s] # UnassignedId => ids'[s] = ids[s]
       /\ LET given == {s \in SeriesObjs : ids[s] = UnassignedId /\ ids'[s] # UnassignedId}
          IN /\ Cardinality(given) <= 1
             /\ given = {} => next_id' = next_id
             /\ \A s \in given :
                    /\ last'.op = "add"
                    /\ last'.err \notin {"ISOperationNotAllowed", "ValueError"}
                    /\ ids'[s] = Some(next_id)
                    /\ last'.id = ids'[s]
                    /\ next_id' = next_id + 1
       /\ (last'.op = "add" /\ last'.err \notin {"ISOperationNotAllowed", "ValueError"}) =>
              \E s \in SeriesObjs : ids'[s] = last'.id
       /\ \A s, t \in SeriesObjs :
              (s # t /\ ids'[s] # UnassignedId) => ids'[s] # ids'[t]]_vars

\* C20 witness: an add that was rejected by the metadata index has given the
\* second series its id, the first series holding a different one
C20_Witness ==
    /\ last.op = "add" /\ last.err = "ISAlreadyAttached"
    /\ last.id = Some(2)
    /\ \E s, t \in SeriesObjs : ids[s] = Some(1) /\ ids[t] = Some(2)

----------------------------------------------------------------------------
(* serialize / deserialize *)

ChronifyTag == "ChronifyTimeSeriesStorage"
ArrowTag == "ArrowTimeSeriesStorage"
\* a storage-kind tag deserialize has no case for
UnknownTag == "OtherTimeSeriesStorage"
\* TIME_SERIES_KWARGS["time_series_engine_name"]
EngineName == "duckdb"

\* what a path holds: for the path the backend works on, the backend's content
FileAt(d, lv, k, arr, tab, f) ==
    IF lv = Some(f)
    THEN (IF k = "chronify" THEN DbFile(tab) ELSE Directory(arr))
    ELSE d[f]

\* the disk with the backend's content written out to the path it works on
Flush(d, lv, k, arr, tab) ==
    IF lv = None THEN d
    ELSE [d EXCEPT ![Val(lv)] = FileAt(d, lv, k, arr, tab, Val(lv))]

\* a path is created with the content, or its content replaced
WriteFile(d, path, content) ==
    IF path = Len(d) + 1 THEN Append(d, content) ELSE [d EXCEPT ![path] = content]

\* the function that named and created the path is recorded
NamedBy(m, path, f) ==
    IF path = Len(m) + 1 THEN Append(m, f) ELSE [m EXCEPT ![path] = f]

\* mutant: the snapshot is made at the path the backend works on
SerializePathMutantLive(d, lv) == IF lv = None THEN Len(d) + 1 ELSE Val(lv)

\* serialize: NamedTemporaryFile(dir=dst, suffix=".db") names a new file in
\* dst; the in-memory backend fills the directory dst itself
SerializePath(d, lv) == Len(d) + 1

\* mutant: only the first array is written
TranscodeMutantFirstOnly(arr, todo, dir) ==
    IF todo = <<>> THEN [arrays |-> dir, written |-> <<>>]
    ELSE [arrays |-> ArrowAdd(dir, from_data(arr[Head(todo)]), arr[Head(todo)]).arrays,
          written |-> <<Head(todo)>>]

\* InMemoryTimeSeriesStorage.serialize: "for ts in self._arrays.values()",
\* todo being the keys of the dict in insertion order:
\* metadata from the series, storage.add_time_series(metadata, ts) on the
\* arrow storage made at dst; the files of dst and the ids handed over
RECURSIVE Transcode(_, _, _)
Transcode(arr, todo, dir) ==
    IF todo = <<>> THEN [arrays |-> dir, written |-> <<>>]
    ELSE LET ts == arr[Head(todo)]
             md == from_data(ts)
             rest == Transcode(arr, Tail(todo), ArrowAdd(dir, md, ts).arrays)
         IN [arrays |-> rest.arrays, written |-> <<md.time_series_id>> \o rest.written]

\* the snapshot serialize writes: store.backup(path) copies the table; the
\* in-memory backend adds each of its arrays to an arrow storage at dst; the
\* arrow backend copies its directory
SnapshotOf(k, arr, tab, ord) ==
    IF k = "chronify" THEN DbFile(tab)
    ELSE IF k = "memory" THEN Directory(Transcode(arr, ord, <<>>).arrays)
    ELSE Directory(arr)

\* the ids serialize handed to add_time_series of the storage it made at dst,
\* in call order
WrittenBy(k, arr, ord) ==
    IF k = "memory" THEN Transcode(arr, ord, <<>>).written ELSE <<>>

\* the keys serialize sets in the dict it is given (given empty)
DescriptorOf(k, path) ==
    IF k = "chronify"
    THEN [NoDescriptor EXCEPT !.filename = Some(path),
                              !.time_series_storage_type = Some(ChronifyTag),
                              !.engine_name = Some(EngineName)]
    ELSE [NoDescriptor EXCEPT !.time_series_storage_type = Some(ArrowTag)]

\* the ghost record of a serialize or deserialize call: the exception raised
\* ("ok" if none), the snapshot path it read, the path it wrote or opened and
\* the ids the in-memory serialize handed to the storage at dst
SnapshotCall(op, err, source, path, written) ==
    [op |-> op, err |-> err, source |-> source, path |-> path, written |-> written]

\* serialize(data, dst): delegates to the backend, in either mode
Serialize ==
    /\ Len(disk) < MaxFiles
    /\ LET path == SerializePath(disk, live)
       IN /\ disk' = WriteFile(disk, path, SnapshotOf(kind, arrays, table, order))
          /\ desc' = DescriptorOf(kind, path)
          /\ made_by' = NamedBy(made_by, path, "serialize")
          /\ last' = SnapshotCall("serialize", "ok", live, Some(path), WrittenBy(kind, arrays, order))
          /\ UNCHANGED <<kind, arrays, order, table, read_only, meta, ids, next_id, live, at_exit>>
          /\ AssociationsUnchanged

\* mutant: the in-memory option is not looked at
InMemoryOptionMutantIgnored(in_memory) == FALSE

\* deserialize: "if time_series_in_memory: raise ISOperationNotAllowed"
InMemoryOption(in_memory) == in_memory

\* deserialize: match data["time_series_storage_type"]
StorageKindOf(tag) ==
    IF tag = ChronifyTag THEN "chronify"
    ELSE IF tag = ArrowTag THEN "arrow"
    ELSE "unknown"

NoStorage == [kind |-> "none", source |-> 0, copy |-> FALSE]

\* deserialize up to the construction of the backend: the error raised, or the
\* backend class, the path it is made from and whether from a copy of it.
\* Reading a key the dict does not have raises KeyError.
DeserializeOutcome(d, in_memory, ro) ==
    IF InMemoryOption(in_memory)
    THEN [err |-> "ISOperationNotAllowed", storage |-> NoStorage]
    ELSE IF d.directory = None THEN [err |-> "KeyError", storage |-> NoStorage]
    ELSE IF d.time_series_storage_type = None
    THEN [err |-> "KeyError", storage |-> NoStorage]
    ELSE LET k == StorageKindOf(Val(d.time_series_storage_type))
         IN IF k = "chronify"
            THEN IF d.filename = None \/ d.engine_name = None
                 THEN [err |-> "KeyError", storage |-> NoStorage]
                 ELSE [err |-> "ok",
                       storage |-> [kind |-> k, source |-> Val(d.filename), copy |-> ~ro]]
            ELSE IF k = "arrow"
            THEN [err |-> "ok",
                  storage |-> [kind |-> k, source |-> Val(d.directory), copy |-> ~ro]]
            ELSE [err |-> "NotImplementedError", storage |-> NoStorage]

\* mutant: the file the backend was copied from is registered
RegisteredMutantSource(reg, src_file, dst_file) == reg \cup {src_file}

\* from_file_to_tmp_file: atexit.register(_delete_tmp_file, dst_file)
Registered(reg, src_file, dst_file) == reg \cup {dst_file}

\* mutant: the writable backend is opened on the snapshot itself
TmpPathMutantSource(d, src) == src

\* from_file_to_tmp_file / create_with_temp_directory: a new temporary path
TmpPath(d, src) == Len(d) + 1

\* deserialize(con, id_manager, data, parent_dir, **kwargs): a new manager
\* over the same connection and allocator, on a backend made from the snapshot
Deserialize(d, in_memory, ro) ==
    LET o == DeserializeOutcome(d, in_memory, ro)
    IN IF o.err # "ok"
       THEN /\ last' = SnapshotCall("deserialize", o.err, None, None, <<>>)
            /\ UNCHANGED <<kind, arrays, order, table, read_only, meta, ids, next_id,
                           disk, live, desc, at_exit, made_by>>
            /\ AssociationsUnchanged
       ELSE LET flushed == Flush(disk, live, kind, arrays, table)
                snapshot == flushed[o.storage.source]
                path == IF o.storage.copy THEN TmpPath(flushed, o.storage.source)
                        ELSE o.storage.source
            IN /\ path <= MaxFiles
               /\ disk' = WriteFile(flushed, path, Opened)
               /\ live' = Some(path)
               /\ kind' = o.storage.kind
               /\ table' = snapshot.rows
               /\ arrays' = snapshot.arrays
               /\ order' = DictOrder(kind', order, arrays')
               /\ read_only' = ro
               /\ at_exit' = IF o.storage.copy /\ o.storage.kind = "chronify"
                             THEN Registered(at_exit, o.storage.source, path) ELSE at_exit
               /\ made_by' = IF o.storage.copy
                             THEN NamedBy(made_by, path,
                                          IF o.storage.kind = "chronify"
                                          THEN "from_file_to_tmp_file"
                                          ELSE "ArrowTimeSeriesStorage")
                             ELSE made_by
               /\ last' = SnapshotCall("deserialize", "ok", Some(o.storage.source),
                                       Some(path), <<>>)
               /\ UNCHANGED <<meta, ids, next_id, desc>>
               /\ AssociationsUnchanged

\* the directory a caller may add to the descriptor: for the columnar-file
\* tag a directory on disk, else the directory of the recorded file
DirectoryChoices ==
    {None} \cup
    (IF desc.time_series_storage_type = Some(ArrowTag)
     THEN {Some(f) : f \in {g \in 1..Len(disk) :
                               FileAt(disk, live, kind, arrays, table, g).type = "dir"}}
     ELSE IF desc.filename # None THEN {desc.filename}
     ELSE {Some(f) : f \in 1..Len(disk)})

\* the descriptors handed to deserialize: the one serialize filled in, as it is
\* or with a directory added, with its tag or with an unknown one
Descriptors ==
    {[desc EXCEPT !.directory = dir, !.time_series_storage_type = tag] :
        dir \in DirectoryChoices,
        tag \in {desc.time_series_storage_type, Some(UnknownTag)}}

\* the manager calls made around snapshots: one series, one component, no
\* filters
SComponent == "c1"
SSeries == {"s1"}

\* _delete_tmp_file(path): path.unlink()
DeleteTmpFile(d, path) == [d EXCEPT ![path] = Deleted]

\* the atexit callbacks run, one per registered path
RECURSIVE RunAtExit(_, _)
RunAtExit(d, reg) ==
    IF reg = {} THEN d
    ELSE LET path == CHOOSE x \in reg : TRUE
         IN RunAtExit(DeleteTmpFile(d, path), reg \ {path})

\* the process has not exited
Running == last.op # "exit"

\* the process exits: the backend's content is on disk and the registered
\* callbacks run
Exit ==
    /\ disk' = RunAtExit(Flush(disk, live, kind, arrays, table), at_exit)
    /\ live' = None
    /\ at_exit' = {}
    /\ last' = SnapshotCall("exit", "ok", live, None, <<>>)
    /\ UNCHANGED <<kind, arrays, order, table, read_only, meta, ids, next_id, desc, made_by>>
    /\ AssociationsUnchanged

SNext ==
    \/ Running /\ \E v \in SSeries : Add(v, {SComponent}, NoAttrs)
    \/ Running /\ Get(SComponent, NoName, NoAttrs, None, None)
    \/ Running /\ Remove({SComponent}, NoName, NoAttrs)
    \/ Running /\ Serialize
    \/ Running /\ \E d \in Descriptors, in_memory \in BOOLEAN, ro \in BOOLEAN :
                      Deserialize(d, in_memory, ro)
    \/ Running /\ Exit

SnapshotSpec == Init /\ [][SNext]_vars

----------------------------------------------------------------------------
(* Claims about serialize and deserialize, checked under SnapshotSpec *)

\* the paths there are before a step, what a path holds before and after it
Paths == 1..Len(disk)
PathContent(f) == FileAt(disk, live, kind, arrays, table, f)
PathContentAfter(f) == FileAt(disk', live', kind', arrays', table', f)

\* everything but the record of the last call is unchanged
NothingChanged ==
    UNCHANGED <<kind, arrays, order, table, read_only, meta, ids, next_id, disk, live, desc,
                at_exit, made_by>>

\* C12: deserialize in read-only mode of the descriptor exactly as serialize of
\* the embedded-SQL backend filled it in succeeds, and the new manager's
\* backend holds the rows of the snapshot.
C12_RoundTripOfWrittenDescriptor ==
    [][(desc.time_series_storage_type = Some(ChronifyTag)
        /\ Deserialize(desc, FALSE, TRUE)) =>
           /\ last'.err = "ok"
           /\ kind' = "chronify"
           /\ DbFile(table') = PathContent(Val(desc.filename))]_vars

\* C13: a serialize step leaves the manager and its backend as they were,
\* writes the snapshot to a path that did not exist, the snapshot holding what
\* the backend holds, and leaves every other path as it was; an add or remove
\* step changes no path other than the one the backend works on.
C13_SerializeCopies ==
    [][/\ last'.op = "serialize" =>
              /\ UNCHANGED <<kind, arrays, table, live, read_only, meta, ids, next_id>>
              /\ last'.path # live
              /\ Val(last'.path) \notin Paths
              /\ PathContentAfter(Val(last'.path)) = SnapshotOf(kind, arrays, table, order)
              /\ \A f \in Paths : PathContentAfter(f) = PathContent(f)
       /\ last'.op \in {"add", "remove"} =>
              \A f \in Paths : live # Some(f) => PathContentAfter(f) = PathContent(f)]_vars

\* C13 witness: after a serialize of the embedded-SQL backend an add on the
\* live store succeeded, and the snapshot holds other rows than the live table
C13_Witness ==
    /\ kind = "chronify" /\ live = Some(1)
    /\ last.op = "add" /\ last.err = "ok"
    /\ desc.filename # None
    /\ disk[Val(desc.filename)].type = "db"
    /\ disk[Val(desc.filename)].rows # table

\* C14: a successful deserialize step changes no path's content and gives a
\* manager whose backend holds what the snapshot holds; in read-only mode the
\* backend works on the snapshot's path, in writable mode on a path that did
\* not exist. An add or remove step changes no path other than the one the
\* backend works on, and on a read-only manager it is rejected and changes
\* nothing.
C14_SnapshotIsolation ==
    [][/\ (last'.op = "deserialize" /\ last'.err = "ok") =>
              /\ live' = last'.path
              /\ \A f \in Paths : PathContentAfter(f) = PathContent(f)
              /\ SnapshotOf(kind', arrays', table', order') = PathContent(Val(last'.source))
              /\ IF read_only' THEN last'.path = last'.source
                 ELSE Val(last'.path) \notin Paths
       /\ last'.op \in {"add", "remove"} =>
              /\ \A f \in Paths : live # Some(f) => PathContentAfter(f) = PathContent(f)
              /\ read_only => (last'.err = "ISOperationNotAllowed" /\ NothingChanged)]_vars

\* C14 witness: a writable manager deserialized from a columnar-file snapshot
\* added an array, and a directory on disk does not hold it
C14_Witness ==
    /\ kind = "arrow" /\ ~read_only
    /\ last.op = "add" /\ last.err = "ok" /\ last.stored # <<>>
    /\ \E f \in Paths : live # Some(f) /\ disk[f].type = "dir" /\ disk[f].arrays # arrays

\* C15: deserialize with the in-memory option set raises ISOperationNotAllowed
\* for every descriptor and in both modes, makes no manager and writes, opens
\* or copies no path.
C15_InMemoryDeserializeRejected ==
    [][\A d \in Descriptors, ro \in BOOLEAN :
          Deserialize(d, TRUE, ro) =>
              (last'.err = "ISOperationNotAllowed" /\ NothingChanged)]_vars

\* C15 witness: a deserialize was rejected so while a complete snapshot of the
\* embedded-SQL backend was there to read
C15_Witness ==
    /\ last.op = "deserialize" /\ last.err = "ISOperationNotAllowed"
    /\ desc.time_series_storage_type = Some(ChronifyTag)
    /\ disk[Val(desc.filename)].type = "db"

\* C16: deserialize (in-memory option off) of every descriptor with an
\* unknown storage-kind tag raises NotImplementedError, in read-only and in
\* writable mode, and makes no manager and no backend.
C16_UnknownTagUnimplemented ==
    [][\A d \in Descriptors, ro \in BOOLEAN :
          (d.time_series_storage_type = Some(UnknownTag) /\ Deserialize(d, FALSE, ro)) =>
              (last'.err = "NotImplementedError" /\ NothingChanged)]_vars

----------------------------------------------------------------------------
(* ComponentAssociations: one table (component_id, component_type,          *)
(* attached_component_id, attached_component_type), a bag of rows            *)

\* type(component).__name__
TypeOf(e) == IF e = 1 THEN "Generator" ELSE "Bus"

\* the component graphs: per component one choice of fields. A component is
\* referenced by a direct field, by a list (also twice, also next to a direct
\* field), only from inside a dict, or not at all; a list may be empty.
FieldChoices(e) ==
    IF e = 1
    THEN {[direct |-> Some(2), list |-> <<2, 3>>, nested |-> {}],
          [direct |-> None, list |-> <<>>, nested |-> {2, 3}],
          [direct |-> Some(3), list |-> <<3>>, nested |-> {2}]}
    ELSE IF e = 2
    THEN {[direct |-> Some(3), list |-> <<>>, nested |-> {1}],
          [direct |-> None, list |-> <<1, 3>>, nested |-> {}]}
    ELSE {NoFields,
          [direct |-> Some(1), list |-> <<>>, nested |-> {2}]}

Graphs == {g \in [Entities -> UNION {FieldChoices(e) : e \in Entities}] :
              \A e \in Entities : g[e] \in FieldChoices(e)}

\* _make_row
MakeRow(component, attached) ==
    [component_id |-> component, component_type |-> TypeOf(component),
     attached_component_id |-> attached, attached_component_type |-> TypeOf(attached)]

\* the rows of a list as a bag
RECURSIVE SeqToBag(_)
SeqToBag(rows) ==
    IF rows = <<>> THEN EmptyBag
    ELSE SetToBag({Head(rows)}) (+) SeqToBag(Tail(rows))

\* mutant: the components inside a dict field get a row too
FieldRowsMutantNested(f, e) ==
    (IF f.direct # None THEN <<MakeRow(e, Val(f.direct))>> ELSE <<>>)
    \o [j \in 1..Len(f.list) |-> MakeRow(e, f.list[j])]
    \o (IF 1 \in f.nested THEN <<MakeRow(e, 1)>> ELSE <<>>)
    \o (IF 2 \in f.nested THEN <<MakeRow(e, 2)>> ELSE <<>>)
    \o (IF 3 \in f.nested THEN <<MakeRow(e, 3)>> ELSE <<>>)

\* add, one component: a row for a field that holds a component, a row per
\* item for a field that holds a non-empty list of components, nothing for
\* any other field
FieldRows(f, e) ==
    (IF f.direct # None THEN <<MakeRow(e, Val(f.direct))>> ELSE <<>>)
    \o [j \in 1..Len(f.list) |-> MakeRow(e, f.list[j])]

\* add, all components of the call
RECURSIVE AllRows(_, _)
AllRows(g, comps) ==
    IF comps = <<>> THEN <<>>
    ELSE FieldRows(g[Head(comps)], Head(comps)) \o AllRows(g, Tail(comps))

\* how often a component is among the components of a call
Times(comps, e) == Cardinality({j \in DOMAIN comps : comps[j] = e})

\* the copies the table holds of the rows in a set
RECURSIVE Copies(_, _)
Copies(tab, rows) ==
    IF rows = {} THEN 0
    ELSE LET r == CHOOSE x \in rows : TRUE
         IN tab[r] + Copies(tab, rows \ {r})

\* SELECT attached_component_id ... WHERE component_id = ?
\* [AND attached_component_type = ?]: the ids, each as often as rows hold it
ChildIds(tab, id, type) ==
    LET hit == {r \in DOMAIN tab :
                   /\ r.component_id = id
                   /\ (type # None => r.attached_component_type = Val(type))}
    IN [x \in {r.attached_component_id : r \in hit} |->
            Copies(tab, {r \in hit : r.attached_component_id = x})]

\* SELECT component_id ... WHERE attached_component_id = ? [AND component_type = ?]
ParentIds(tab, id, type) ==
    LET hit == {r \in DOMAIN tab :
                   /\ r.attached_component_id = id
                   /\ (type # None => r.component_type = Val(type))}
    IN [x \in {r.component_id : r \in hit} |->
            Copies(tab, {r \in hit : r.component_id = x})]

\* mutant: only the rows the component owns are deleted
DeleteRowsMutantOwnerOnly(tab, id) ==
    [r \in {x \in DOMAIN tab : x.component_id # id} |-> tab[r]]

\* DELETE ... WHERE component_id = ? OR attached_component_id = ?
DeleteRows(tab, id) ==
    [r \in {x \in DOMAIN tab : x.component_id # id /\ x.attached_component_id # id}
        |-> tab[r]]

\* the ghost record of a call on the associations
AssocCall(op, comps, type, result) ==
    [op |-> op, err |-> "ok", components |-> comps, component_type |-> type,
     result |-> result]

\* the other subsystems are not touched
StorageUnchanged ==
    UNCHANGED <<kind, arrays, order, table, read_only, meta, ids, next_id, disk, live, desc,
                at_exit, made_by>>

\* mutant: a row the table already holds is not inserted again
InsertRowsMutantIdempotent(tab, rows) ==
    LET new == SeqToBag(rows)
    IN [r \in DOMAIN tab \cup DOMAIN new |->
           IF r \in DOMAIN tab THEN tab[r] ELSE new[r]]

\* _insert_rows: INSERT INTO ... VALUES(?, ...) for every row, the key left
\* to the table, so a row equal to an earlier one is one more row
InsertRows(tab, rows) == tab (+) SeqToBag(rows)

\* add(*components)
AssocAdd(comps) ==
    LET rows == AllRows(graph, comps)
        tab == IF rows # <<>> THEN InsertRows(edges, rows) ELSE edges
    IN /\ \A e \in Entities : since_clear.adds[e] + Times(comps, e) <= MaxAdds
       /\ edges' = tab
       /\ since_clear' = [since_clear EXCEPT
                             !.adds = [e \in Entities |-> @[e] + Times(comps, e)]]
       /\ last' = AssocCall("add", comps, None, EmptyBag)
       /\ UNCHANGED graph
       /\ StorageUnchanged

\* clear()
AssocClear ==
    /\ edges' = EmptyBag
    /\ since_clear' = NoCalls
    /\ last' = AssocCall("clear", <<>>, None, EmptyBag)
    /\ UNCHANGED graph
    /\ StorageUnchanged

\* remove(component)
AssocRemove(e) ==
    /\ edges' = DeleteRows(edges, e)
    /\ since_clear' = [since_clear EXCEPT !.removed = TRUE]
    /\ last' = AssocCall("remove", <<e>>, None, EmptyBag)
    /\ UNCHANGED graph
    /\ StorageUnchanged

\* list_child_components(component, component_type)
ListChildComponents(e, type) ==
    /\ last' = AssocCall("list_child_components", <<e>>, type, ChildIds(edges, e, type))
    /\ UNCHANGED <<graph, edges, since_clear>>
    /\ StorageUnchanged

\* list_parent_components(component, component_type)
ListParentComponents(e, type) ==
    /\ last' = AssocCall("list_parent_components", <<e>>, type, ParentIds(edges, e, type))
    /\ UNCHANGED <<graph, edges, since_clear>>
    /\ StorageUnchanged

\* the components handed to one add(): one, or all of them
AddInputs == {<<e>> : e \in Entities} \cup {<<1, 2, 3>>}

\* the type filter of a query: none, or one of the types
TypeFilters == {None, Some("Bus")}

AInit ==
    /\ kind = "memory"
    /\ arrays = <<>>
    /\ order = <<>>
    /\ table = EmptyBag
    /\ read_only = FALSE
    /\ meta = {}
    /\ ids = <<>>
    /\ next_id = 1
    /\ disk = FreshDisk(kind)
    /\ live = FreshLive(kind)
    /\ desc = NoDescriptor
    /\ at_exit = FreshAtExit(kind)
    /\ made_by = FreshMadeBy(kind)
    /\ graph \in Graphs
    /\ edges = EmptyBag
    /\ since_clear = NoCalls
    /\ last = AssocCall("init", <<>>, None, EmptyBag)

ANext ==
    \/ \E comps \in AddInputs : AssocAdd(comps)
    \/ AssocClear
    \/ \E e \in Entities : AssocRemove(e)
    \/ \E e \in Entities, type \in TypeFilters : ListChildComponents(e, type)
    \/ \E e \in Entities, type \in TypeFilters : ListParentComponents(e, type)

AssocSpec == AInit /\ [][ANext]_vars

----------------------------------------------------------------------------
(* Claims about ComponentAssociations *)

\* how often the fields of owner reference attached: once for a direct
\* field, once per item of a list; what a dict holds is no reference
References(owner, attached) ==
    (IF graph[owner].direct = Some(attached) THEN 1 ELSE 0)
    + Cardinality({j \in DOMAIN graph[owner].list : graph[owner].list[j] = attached})

\* the ids a query for the children of owner is to return
ReferencedBy(owner, type) ==
    [a \in {x \in Entities : /\ References(owner, x) > 0
                             /\ (type # None => TypeOf(x) = Val(type))}
        |-> References(owner, a)]

\* the ids a query for the parents of attached is to return
ReferencesTo(attached, type) ==
    [o \in {x \in Entities : /\ References(x, attached) > 0
                             /\ (type # None => TypeOf(x) = Val(type))}
        |-> References(o, attached)]

\* since the last clear() every component was added once and none removed
Rebuilt ==
    /\ ~since_clear.removed
    /\ \A e \in Entities : since_clear.adds[e] = 1

\* since the last clear() (or construction) nothing was added
Cleared == \A e \in Entities : since_clear.adds[e] = 0

\* C17: after clear() and one add(e) for every component, the children query
\* of o returns the ids o references through a direct field or a list, each
\* as often as it is referenced, and the parents query of a returns the ids
\* of the components that reference a that way; a component held in a dict
\* gives no edge; with nothing added since clear() every query is empty.
C17_RebuildGivesDirectEdges ==
    /\ (Rebuilt /\ last.op = "list_child_components")
          => last.result = ReferencedBy(last.components[1], last.component_type)
    /\ (Rebuilt /\ last.op = "list_parent_components")
          => last.result = ReferencesTo(last.components[1], last.component_type)
    /\ (Cleared /\ last.op \in {"list_child_components", "list_parent_components"})
          => last.result = EmptyBag

\* a rebuilt index was asked for the children of component 1, which holds 2
\* in a dict and references 3 by a direct field and by a list; 3 came back twice
C17_Witness ==
    /\ Rebuilt
    /\ last.op = "list_child_components"
    /\ last.components = <<1>>
    /\ graph[1].nested = {2}
    /\ last.result = SetToBag({3}) (+) SetToBag({3})

\* C18: remove(e) deletes every edge with e as owner or attachee and no
\* other: afterwards both queries for e are empty, e is in no other
\* component's children or parents, and every edge between other components
\* is there as often as before.
C18_RemoveDeletesBothSides ==
    [][\A e \in Entities :
          AssocRemove(e) =>
             /\ ChildIds(edges', e, None) = EmptyBag
             /\ ParentIds(edges', e, None) = EmptyBag
             /\ \A o \in Entities \ {e} :
                   /\ e \notin DOMAIN ChildIds(edges', o, None)
                   /\ e \notin DOMAIN ParentIds(edges', o, None)
             /\ \A o, a \in Entities \ {e} :
                   CopiesIn(MakeRow(o, a), edges') = CopiesIn(MakeRow(o, a), edges)
             /\ DOMAIN edges' \subseteq DOMAIN edges]_vars

\* component 3 was removed: component 1 was added before with its
\* references to 2 and 3, and only its two edges to 2 are left
C18_Witness ==
    /\ last.op = "remove"
    /\ last.components = <<3>>
    /\ graph[1].list = <<2, 3>>
    /\ since_clear.adds[1] = 1
    /\ edges = SetToBag({MakeRow(1, 2)}) (+) SetToBag({MakeRow(1, 2)})

\* the rows the table holds
RowCount(tab) == Copies(tab, DOMAIN tab)

\* C25: add is cumulative: each add(e) puts one more row for every reference
\* of e, whatever the table holds already, so after k adds of e since the
\* last clear() and no remove the table holds k rows per reference and the
\* children query of e and the parents queries return each id k times per
\* reference; a step that lowers the number of rows is a remove or a clear.
C25_AddIsCumulative ==
    [][/\ \A comps \in AddInputs :
            AssocAdd(comps) =>
               \A o, a \in Entities :
                  CopiesIn(MakeRow(o, a), edges')
                     = CopiesIn(MakeRow(o, a), edges) + Times(comps, o) * References(o, a)
       /\ ~since_clear'.removed =>
            /\ \A o, a \in Entities :
                  CopiesIn(MakeRow(o, a), edges') = since_clear'.adds[o] * References(o, a)
            /\ last'.op = "list_child_components" /\ last'.component_type = None =>
                  \A a \in Entities :
                     CopiesIn(a, last'.result)
                        = since_clear'.adds[last'.components[1]]
                             * References(last'.components[1], a)
            /\ last'.op = "list_parent_components" /\ last'.component_type = None =>
                  \A o \in Entities :
                     CopiesIn(o, last'.result)
                        = since_clear'.adds[o] * References(o, last'.components[1])
       /\ RowCount(edges') < RowCount(edges) => last'.op \in {"remove", "clear"}]_vars

\* component 1, which references 2 by a direct field and by a list and 3 by
\* the list, was added twice and nothing removed: its children query
\* returned 2 four times and 3 twice
C25_Witness ==
    /\ ~since_clear.removed
    /\ since_clear.adds[1] = 2
    /\ last.op = "list_child_components"
    /\ last.components = <<1>>
    /\ last.component_type = None
    /\ CopiesIn(2, last.result) = 4
    /\ CopiesIn(3, last.result) = 2

----------------------------------------------------------------------------
(* Further claims about TimeSeriesManager, checked under Spec *)

\* the series objects that hold the id
HoldersOf(id) == {s \in SeriesObjs : ids[s] = Some(id)}

\* C24: when a series object that already has its id is added while no
\* metadata row references the id and the backend holds no array under it
\* (the state a removal of every row leaves), the array is stored again:
\* storage.add_time_series is called for the id and the backend then holds the
\* samples of the series; when the add succeeds it has registered rows with
\* the id, the backend returns the series for each of them, and get with the
\* filters of such a row returns the series when no other row matches them.
C24_ReAddAfterRemoval ==
    [][(/\ last'.op = "add"
        /\ last'.id # None
        /\ HoldersOf(Val(last'.id)) # {}
        /\ ~MetaHasTimeSeries(meta, Val(last'.id))
        /\ ~Stored(kind, arrays, table, Val(last'.id))) =>
          LET id == Val(last'.id)
          IN \A s \in HoldersOf(id) :
                LET ts == SeriesOf(s, id)
                    whole == [initial_time |-> ts.initial_time, data |-> ts.data]
                IN /\ last'.stored = <<id>>
                   /\ Stored(kind, arrays', table', id)
                   /\ StorageGet(kind, arrays', table', from_data(ts), None, None)
                         = [err |-> "ok", result |-> whole]
                   /\ last'.err \in {"ok", "ISAlreadyAttached"}
                   /\ last'.err = "ok" =>
                         /\ meta' \ meta # {}
                         /\ \A r \in meta' \ meta :
                               /\ r.md = from_data(ts)
                               /\ MetaRows(meta', {r.component}, r.md.variable_name, r.attrs)
                                      = {r} =>
                                     GetOutcome(meta', kind, arrays', table', r.component,
                                                r.md.variable_name, r.attrs, None, None)
                                        = [err |-> "ok", read |-> TRUE, result |-> whole]]_vars

\* series s1 holds id 1 and s2 holds id 2, so s1 was first added before s2
\* was; the last call added s1 and stored its array, so no row referenced
\* id 1 any more: every row of s1 had been removed and s1 was added again.
\* The array is held and the one row of s1 reads it.
C24_Witness ==
    /\ last.op = "add" /\ last.err = "ok"
    /\ last.id = Some(1) /\ last.stored = <<1>>
    /\ ids["s1"] = Some(1) /\ ids["s2"] = Some(2)
    /\ Stored(kind, arrays, table, 1)
    /\ \E r \in meta :
          /\ r.md.time_series_id = 1
          /\ GetOutcome(meta, kind, arrays, table, r.component, "v", r.attrs, None, None).err
                = "ok"

----------------------------------------------------------------------------
(* The read calls of TimeSeriesManager: get, has_time_series,                *)
(* list_time_series, list_time_series_metadata                               *)

\* the filters and range of a read call
ReadQuery(comp, name, attrs, start_time, length) ==
    [component |-> comp, variable_name |-> name, attrs |-> attrs,
     start_time |-> start_time, length |-> length]

\* the state a read call leaves alone
ReadUnchanged ==
    /\ UNCHANGED <<kind, arrays, order, table, read_only, meta, ids, next_id>>
    /\ SnapshotUnchanged
    /\ AssociationsUnchanged

\* has_time_series: has_time_series_metadata(component, filters)
HasTimeSeriesOutcome(m, comp, name, attrs) == MetaRows(m, {comp}, name, attrs) # {}

\* list_time_series_metadata: list_metadata(component, filters); the rows as
\* a set, the order of the list being the index's
ListMetadataOutcome(m, comp, name, attrs) ==
    {[attrs |-> r.attrs, md |-> r.md] : r \in MetaRows(m, {comp}, name, attrs)}

\* list_time_series: _get_by_metadata for every listed row. The series per
\* row when every fetch succeeds, else the exceptions a fetch raises: the
\* call raises the one of the first row that fails.
ListOutcome(m, k, arr, tab, comp, name, attrs, start_time, length) ==
    LET rows == MetaRows(m, {comp}, name, attrs)
        fetch(r) == StorageGet(k, arr, tab, r.md, start_time, length)
        errs == {fetch(r).err : r \in rows} \ {"ok"}
    IN [errs |-> errs,
        result |-> IF errs # {} THEN {}
                   ELSE {[attrs |-> r.attrs, md |-> r.md, series |-> fetch(r).result] :
                            r \in rows}]

\* has_time_series(component, variable_name, time_series_type, **attrs)
HasTimeSeries(comp, name, attrs) ==
    /\ last' = Call("has_time_series", "ok", None,
                    ReadQuery(comp, name, attrs, None, None), <<>>, <<>>, FALSE,
                    HasTimeSeriesOutcome(meta, comp, name, attrs))
    /\ ReadUnchanged

\* list_time_series_metadata(component, variable_name, time_series_type, **attrs)
ListTimeSeriesMetadata(comp, name, attrs) ==
    /\ last' = Call("list_time_series_metadata", "ok", None,
                    ReadQuery(comp, name, attrs, None, None), <<>>, <<>>, FALSE,
                    ListMetadataOutcome(meta, comp, name, attrs))
    /\ ReadUnchanged

\* list_time_series(component, variable_name, time_series_type, start_time,
\* length, **attrs)
ListTimeSeries(comp, name, attrs, start_time, length) ==
    LET o == ListOutcome(meta, kind, arrays, table, comp, name, attrs, start_time, length)
    IN /\ \E err \in (IF o.errs = {} THEN {"ok"} ELSE o.errs) :
             last' = Call("list_time_series", err, None,
                          ReadQuery(comp, name, attrs, start_time, length), <<>>, <<>>,
                          MetaRows(meta, {comp}, name, attrs) # {}, o.result)
       /\ ReadUnchanged

\* the component, the name filters and the ranges of the read calls: the
\* whole array, one sample from the second on, and a length past the end
RComponent == "c1"
RNames == {NoName, "w"}
RRanges == MRanges \cup {[start_time |-> None, length |-> Some(MaxLen + 1)]}

RNext ==
    \/ \E v \in SeriesObjs, attrs \in AttrBags : Add(v, {RComponent}, attrs)
    \/ \E attrs \in AttrBags : Remove({RComponent}, NoName, attrs)
    \/ \E ro \in BOOLEAN : Reopen(ro)
    \/ \E name \in RNames, attrs \in AttrBags, rg \in RRanges :
           Get(RComponent, name, attrs, rg.start_time, rg.length)
    \/ \E name \in RNames, attrs \in AttrBags : HasTimeSeries(RComponent, name, attrs)
    \/ \E name \in RNames, attrs \in AttrBags :
           ListTimeSeriesMetadata(RComponent, name, attrs)
    \/ \E name \in RNames, attrs \in AttrBags, rg \in RRanges :
           ListTimeSeries(RComponent, name, attrs, rg.start_time, rg.length)

ReadSpec == Init /\ [][RNext]_vars

----------------------------------------------------------------------------
(* Claims about the read calls, checked under ReadSpec *)

ReadOps == {"get", "has_time_series", "list_time_series_metadata", "list_time_series"}

\* what the call recorded in c returns when made in the state (m, k, arr, tab)
SameCallReturns(c, m, k, arr, tab) ==
    LET q == c.query
    IN CASE c.op = "get" ->
              LET o == GetOutcome(m, k, arr, tab, q.component, q.variable_name, q.attrs,
                                  q.start_time, q.length)
              IN c.err = o.err /\ c.result = o.result
         [] c.op = "has_time_series" ->
              /\ c.err = "ok"
              /\ c.result = HasTimeSeriesOutcome(m, q.component, q.variable_name, q.attrs)
         [] c.op = "list_time_series_metadata" ->
              /\ c.err = "ok"
              /\ c.result = ListMetadataOutcome(m, q.component, q.variable_name, q.attrs)
         [] c.op = "list_time_series" ->
              LET o == ListOutcome(m, k, arr, tab, q.component, q.variable_name, q.attrs,
                                   q.start_time, q.length)
              IN /\ c.result = o.result
                 /\ Cardinality(o.errs) <= 1
                 /\ c.err \in (IF o.errs = {} THEN {"ok"} ELSE o.errs)

\* C21: in every step of get, has_time_series, list_time_series_metadata and
\* list_time_series, whatever the filters and the range and whether the call
\* returns or raises, the metadata rows, the backend's arrays and rows, the
\* allocator, the ids of the series objects and the read-only flag are as
\* before, and the same call made again in the state it leaves returns what
\* it returned.
C21_ReadsArePure ==
    [][last'.op \in ReadOps =>
          /\ meta' = meta
          /\ arrays' = arrays
          /\ order' = order
          /\ table' = table
          /\ kind' = kind
          /\ next_id' = next_id
          /\ ids' = ids
          /\ read_only' = read_only
          /\ SameCallReturns(last', meta, kind, arrays, table)
          /\ SameCallReturns(last', meta', kind', arrays', table')]_vars

\* on a read-only manager list_time_series returned the two series of the
\* component
C21_Witness ==
    /\ read_only
    /\ last.op = "list_time_series" /\ last.err = "ok"
    /\ Cardinality(last.result) = 2
    /\ Cardinality(meta) = 2

----------------------------------------------------------------------------
(* Claims about the temporary files of ChronifyTimeSeriesStorage, checked    *)
(* under SnapshotSpec                                                        *)

\* the functions that make a writable embedded-SQL backend
TmpMakers == {"create_with_temp_directory", "from_file_to_tmp_file"}

\* the database files made as temporary files, and those serialize wrote
TmpFiles == {f \in 1..Len(made_by) : made_by[f] \in TmpMakers}
SnapshotFiles == {f \in 1..Len(made_by) : made_by[f] = "serialize"}

\* while the process runs, the paths registered for deletion at exit are
\* exactly the temporary files the writable embedded-SQL backends were made
\* on; no file written by serialize is registered, and a backend that works
\* on a file serialize wrote (opened through from_file) has not registered it
OnlyTmpFilesRegistered ==
    Running =>
        /\ at_exit = TmpFiles
        /\ at_exit \cap SnapshotFiles = {}
        /\ (kind = "chronify" /\ live # None) =>
              (Val(live) \in at_exit <=> ~(Val(live) \in SnapshotFiles))

\* C23: the registered paths are at all times exactly the temporary files of
\* the writable embedded-SQL backends. A writable backend is made on a path
\* no file had before, other than the file it is copied from, and exactly
\* that path is registered; a read-only deserialize opens the snapshot and
\* registers nothing; serialize registers nothing; process exit unlinks the
\* registered paths and leaves every other file, so every file serialize
\* wrote and every file opened through from_file, as it was.
C23_TmpFileLifecycle ==
    [][/\ OnlyTmpFilesRegistered
       /\ OnlyTmpFilesRegistered'
       /\ (last'.op = "deserialize" /\ last'.err = "ok" /\ kind' = "chronify") =>
            IF read_only'
            THEN /\ at_exit' = at_exit
                 /\ live' = last'.source
                 /\ Val(live') \in SnapshotFiles
            ELSE /\ Val(live') \notin 1..Len(disk)
                 /\ live' # last'.source
                 /\ at_exit' = at_exit \cup {Val(live')}
                 /\ Cardinality(at_exit') = Cardinality(at_exit) + 1
       /\ last'.op = "serialize" =>
            /\ at_exit' = at_exit
            /\ Val(last'.path) \notin 1..Len(disk)
            /\ Val(last'.path) \notin at_exit'
       /\ last'.op = "exit" =>
            \A f \in 1..Len(disk) :
               IF f \in at_exit THEN disk'[f] = Deleted
               ELSE /\ disk'[f] = PathContent(f)
                    /\ disk'[f] # Deleted
       /\ last'.op = "exit" =>
            /\ \A f \in SnapshotFiles : disk'[f] = PathContent(f)
            /\ \A f \in TmpFiles : disk'[f] = Deleted]_vars

\* the process exited while a read-only backend worked on a snapshot: the
\* first temporary file is unlinked, the snapshot holds its rows
C23_Witness ==
    /\ last.op = "exit"
    /\ last.source = Some(2)
    /\ made_by = <<"create_with_temp_directory", "serialize", "from_file_to_tmp_file">>
    /\ disk[1] = Deleted
    /\ disk[2].type = "db" /\ disk[2].rows # EmptyBag
    /\ disk[3] = Deleted

----------------------------------------------------------------------------
(* serialize of the in-memory backend: two series, one component *)

TInit == Init /\ kind = "memory"

TNext ==
    \/ \E v \in SeriesObjs, attrs \in AttrBags : Add(v, {SComponent}, attrs)
    \/ \E attrs \in AttrBags : Remove({SComponent}, NoName, attrs)
    \/ Serialize

TranscodeSpec == TInit /\ [][TNext]_vars

\* C22: serialize of the in-memory backend hands every array it holds, once
\* each and under the id the array carries, to a columnar-file storage made
\* at the destination, which then holds those arrays and no other; the
\* descriptor's tag names the columnar-file storage; the in-memory map, and
\* every other path, is as before.
C22_InMemoryTranscode ==
    [][(last'.op = "serialize" /\ kind = "memory") =>
          LET dst == Val(last'.path)
              written == last'.written
          IN /\ disk'[dst].type = "dir"
             /\ DOMAIN disk'[dst].arrays = DOMAIN arrays
             /\ \A id \in DOMAIN arrays :
                   /\ disk'[dst].arrays[id] = arrays[id]
                   /\ arrays[id].id = id
                   /\ Cardinality({j \in DOMAIN written : written[j] = id}) = 1
             /\ Len(written) = Cardinality(DOMAIN arrays)
             /\ desc'.time_series_storage_type = Some(ArrowTag)
             /\ arrays' = arrays
             /\ order' = order
             /\ kind' = "memory"
             /\ \A f \in 1..Len(disk) : f # dst => disk'[f] = disk[f]]_vars

\* the in-memory backend was serialized after an earlier snapshot of one
\* array, holding two arrays of which the one with id 1 had been removed and
\* stored again: the arrays were handed over in the dict's order, id 2 first,
\* and the new directory holds the two
C22_Witness ==
    /\ last.op = "serialize" /\ kind = "memory"
    /\ Len(disk) = 2
    /\ DOMAIN disk[1].arrays = {1}
    /\ DOMAIN disk[2].arrays = {1, 2}
    /\ DOMAIN arrays = {1, 2}
    /\ order = <<2, 1>>
    /\ last.written = <<2, 1>>

====
